---- MODULE Spec2Model ----
(***************************************************************************)
(* A model of the conversational session layer of the RSH WhatsApp chatbot *)
(* backend (rsh-ai-backend): the /ask handler with its idempotency cache   *)
(* and bot gate (app.py, admin_routes.py), the thread registry             *)
(* (assistant_thread_manager.py), the run orchestrator                     *)
(* (openai_assistant_pipeline.py) and the analytics thread lookup          *)
(* (analytics_pipeline.py).                                                *)
(*                                                                         *)
(* Python strings are sequences of tokens.  A token is either one          *)
(* character or a fixed multi-character piece that the code only ever      *)
(* tests or adds as a whole ("analytics_", "@s.whatsapp.net", a fixed      *)
(* reply sentence).  Python's None and the empty string are both the empty *)
(* sequence: the code only ever tests them by truthiness.                  *)
(***************************************************************************)
EXTENDS Integers, Sequences, FiniteSets, TLC

\* ------------------------------------------------------------------ bounds

\* Requests /ask accepts in one behaviour of Spec and of SpecPoll.
MaxAsks == 2
\* Threads the remote service hands out in one behaviour.
MaxThreads == 3
\* Seconds of wall clock the cache is observed over.
MaxTime == 301
\* Polls of one run that do not end the wait (SpecPoll sets no such bound).
MaxPolls == 1
\* Requests /ask accepts in one behaviour of SpecCache.
MaxKeyed == 3
\* Requests /ask accepts in one behaviour of SpecGate.
MaxInbound == 4
\* Requests /ask accepts in one behaviour of SpecLRU.
MaxStores == 4
\* Requests /ask accepts in one behaviour of SpecStrip.
MaxStripped == 1
\* Pieces a reply text of SpecStrip is put together from.
MaxPieces == 3
\* Requests /ask accepts in one behaviour of SpecRace.
MaxRacers == 2
\* Requests /ask accepts in one behaviour of SpecWait.
MaxWaits == 1
\* Requests /ask accepts in one behaviour of SpecInbound.
MaxConcurrent == 3
\* Largest unanswered count a sender reaches.
MaxCount == 4
\* Capacity of the request cache: MAX_CACHE_SIZE of app.py, which is 1000 there,
\* scaled down so that a store at capacity happens.
MAX_CACHE_SIZE == 2

\* ------------------------------------------------------- program constants

REQUEST_CACHE_TTL == 300
max_retries == 3
max_wait_time == 120
initial_polling_interval == 2
max_polling_interval == 5
max_timeout_retries == 3
poll_request_timeout == 30

\* ------------------------------------------------------------------ strings

None == <<>>
SP == " "
ANA == "analytics_"
SUF == "@s.whatsapp.net"
NUM == "628123"

\* str.strip(): leading and trailing whitespace removed.
RECURSIVE lstrip(_)
lstrip(s) ==
    IF s # <<>> /\ s[1] = SP THEN lstrip(Tail(s)) ELSE s

RECURSIVE rstrip(_)
rstrip(s) ==
    IF s # <<>> /\ s[Len(s)] = SP THEN rstrip(SubSeq(s, 1, Len(s) - 1)) ELSE s

strip(s) == rstrip(lstrip(s))

\* '@s.whatsapp.net' in s
HasSuffix(s) == \E i \in DOMAIN s : s[i] = SUF

\* s.split('@')[0]: the text before the first '@' (only SUF holds one).
BeforeAt(s) ==
    IF HasSuffix(s)
    THEN LET i == CHOOSE j \in DOMAIN s :
                      s[j] = SUF /\ \A k \in 1..(j - 1) : s[k] # SUF
         IN SubSeq(s, 1, i - 1)
    ELSE s

\* s.startswith('analytics_')
StartsWithAna(s) == s # <<>> /\ s[1] = ANA

\* f"analytics_{s}" and f"{s}@s.whatsapp.net"
WithAna(s) == <<ANA>> \o s
WithSuffix(s) == s \o <<SUF>>

\* ---------------------------------------------------------- thread registry

\* Thread ids are 1, 2, ...; a lookup that finds nothing gives NoThread.
NoThread == 0

\* dict.get(key): the registry is a function from the bound keys to thread ids.
Lookup(m, k) == IF k \in DOMAIN m THEN m[k] ELSE NoThread

\* m[key] = value
Bind(m, k, t) == [x \in DOMAIN m \cup {k} |-> IF x = k THEN t ELSE m[x]]

\* del m[key]
Unbind(m, k) == [x \in DOMAIN m \ {k} |-> m[x]]

\* The keys get_thread_id_for_nomor probes, in order.
Candidates(nomor) ==
    LET c == strip(nomor)
    IN  <<c>>
        \o (IF HasSuffix(c) THEN <<BeforeAt(c)>> ELSE <<WithSuffix(c)>>)
        \o (IF StartsWithAna(c) THEN <<>>
            ELSE <<WithAna(c)>>
                 \o (IF HasSuffix(c) THEN <<>> ELSE <<WithAna(WithSuffix(c))>>))

\* The first candidate that is bound (to a truthy thread id), else NoThread.
RECURSIVE FirstBound(_, _)
FirstBound(m, cs) ==
    IF cs = <<>> THEN NoThread
    ELSE IF Lookup(m, Head(cs)) # NoThread THEN Lookup(m, Head(cs))
    ELSE FirstBound(m, Tail(cs))

get_thread_id_for_nomor(m, nomor) == FirstBound(m, Candidates(nomor))

\* set_thread_id_for_nomor stores under the string it is given.
set_thread_id_for_nomor(m, nomor, t) == Bind(m, nomor, t)

\* ------------------------------------------------------------- reply texts

\* The characters of the citation marker, a digit and a letter.
OPEN == "[["
CLOSE == "]]"
DAGGER == "+"
COLON == ":"
IsDigit(c) == c \in {"1", "2"}

\* The index after the longest run of digits that starts at i.
RECURSIVE DigitsEnd(_, _)
DigitsEnd(s, i) ==
    IF i <= Len(s) /\ IsDigit(s[i]) THEN DigitsEnd(s, i + 1) ELSE i

\* The index after the longest run of characters other than CLOSE from i.
RECURSIVE LabelEnd(_, _)
LabelEnd(s, i) ==
    IF i <= Len(s) /\ s[i] # CLOSE THEN LabelEnd(s, i + 1) ELSE i

\* The index after a match of OPEN \d+ : \d+ DAGGER [^CLOSE]+ CLOSE that
\* starts at i, or 0 when none starts there.
MatchEnd(s, i) ==
    IF i > Len(s) \/ s[i] # OPEN THEN 0
    ELSE LET a == DigitsEnd(s, i + 1)
         IN  IF a = i + 1 \/ a > Len(s) \/ s[a] # COLON THEN 0
             ELSE LET b == DigitsEnd(s, a + 1)
                  IN  IF b = a + 1 \/ b > Len(s) \/ s[b] # DAGGER THEN 0
                      ELSE LET c == LabelEnd(s, b + 1)
                           IN  IF c = b + 1 \/ c > Len(s) THEN 0 ELSE c + 1

\* re.sub(pattern, "", text): every leftmost non-overlapping match removed.
RECURSIVE StripFrom(_, _)
StripFrom(s, i) ==
    IF i > Len(s) THEN <<>>
    ELSE IF MatchEnd(s, i) # 0 THEN StripFrom(s, MatchEnd(s, i))
    ELSE <<s[i]>> \o StripFrom(s, i + 1)

StripCitations(s) == StripFrom(s, 1)

Marker == <<OPEN, "1", "2", COLON, "1", DAGGER, "s", CLOSE>>

\* What the assistant may write when a run completes: a plain text, a text
\* with a citation marker inside, and a text that is one marker and nothing else.
ReplyTexts == { <<"a">>, <<"a">> \o Marker \o <<"b">>, Marker }

\* Reply texts with well-formed, unclosed, unopened and nested markers: up
\* to MaxPieces pieces, each a letter, the head of a marker, the tail of a
\* marker or a whole marker.
MarkerHead == <<OPEN, "1", COLON>>
MarkerTail == <<"1", DAGGER, "s", CLOSE>>
Pieces == { <<"a">>, MarkerHead, MarkerTail, Marker }

RECURSIVE TextsOf(_)
TextsOf(n) ==
    IF n = 0 THEN { <<>> }
    ELSE LET T == TextsOf(n - 1)
         IN  T \cup { t \o p : t \in T, p \in Pieces }

StripTexts == TextsOf(MaxPieces) \ { <<>> }

\* What the analytics assistant writes on an analytics thread.
AnalysisText == <<"{json}">>

\* The fixed sentences send_message_and_get_response returns.
F_BADMSG == <<"Pesan tidak valid. Silakan kirim pesan teks.">>
F_CREATE == <<"Gagal membuat thread baru. Silakan coba lagi nanti.">>
F_THREAD == <<"Terjadi masalah dengan thread percakapan. Silakan coba lagi nanti.">>
F_POST == <<"Gagal mengirim pesan ke Assistant setelah beberapa percobaan. Silakan coba lagi nanti.">>
F_RUN == <<"Gagal membuat run dengan Assistant setelah beberapa percobaan. Silakan coba lagi nanti.">>
F_TECH == <<"Maaf, saya sedang mengalami masalah teknis. Silakan coba lagi dalam beberapa saat.">>
F_NORESP == <<"Maaf, saya tidak dapat memberikan respons saat ini. Silakan coba lagi nanti.">>

FixedReplies == {F_BADMSG, F_CREATE, F_THREAD, F_POST, F_RUN, F_TECH, F_NORESP}

\* str(e) of the exception a failing save_threads raises, which reaches the
\* last handler of send_message_and_get_response.
E_DISK == "[Errno 28] No space left on device"

\* f"Terjadi kesalahan tak terduga: {str(e)}. Silakan coba lagi nanti."
Unexpected(e) ==
    <<"Terjadi kesalahan tak terduga: ", e, ". Silakan coba lagi nanti.">>

\* ------------------------------------------------------------------- state

VARIABLES
    nomor_to_thread,      \* assistant_thread_manager.nomor_to_thread
    threads_file,         \* assistant_threads.json: [valid, data]
    bot_status,           \* admin_routes.bot_status
    unanswered_messages,  \* admin_routes.unanswered_messages
    conversations,        \* chat_logger's conversations, by sender, oldest first
    request_cache,        \* app.request_cache, least recently used first
    now,                  \* time.time() as the cache reads it, in seconds
    assistant_id_set,     \* whether OPENAI_ASSISTANT_ID is in the environment
    last_assistant,       \* per thread the remote service created, its
                          \* latest assistant text (None: no such message)
    ask_count,            \* requests /ask has accepted
    req,                  \* per request slot, the locals of ask() and below
    prev_send,            \* history: the previous call of send_message_and_get_response
    handled,              \* history: per idempotency key, its latest handling
    gate_log,             \* history: the run of gate events in progress
    gate_op               \* history: the gate operation the last step was

vars == <<nomor_to_thread, threads_file, bot_status, unanswered_messages,
          conversations, request_cache, now, assistant_id_set,
          last_assistant, ask_count, req, prev_send, handled, gate_log,
          gate_op>>

Slots == {1, 2}

\* The senders and idempotency keys /ask is called with.
Senders == { <<NUM>>, <<NUM, SUF>>, <<NUM, SP>> }
K1 == <<"abc">>
K2 == <<"xyz">>
K3 == <<"k3">>
Keys == {K1, K2}
TextMessage == <<"h", "i">>
\* A JSON number as the message: truthy, and not a str.
NumberMessage == <<"#42">>
IsStr(message) == message # NumberMessage

EmptyMap == [x \in {} |-> 0]

\* ------------------------------------------------------------ request cache

\* Fault: an entry expires as soon as its age reaches the TTL.
SweepAtTTL(c, t) ==
    SelectSeq(c, LAMBDA e : ~(t - e.timestamp >= REQUEST_CACHE_TTL))

\* Fault: a lookup removes nothing.
SweepSkipped(c, t) == c

\* The entries that are not expired at time t (app.py 230-233).
Sweep(c, t) ==
    SelectSeq(c, LAMBDA e : ~(t - e.timestamp > REQUEST_CACHE_TTL))

InCache(c, k) == \E i \in DOMAIN c : c[i].key = k

CacheIndex(c, k) == CHOOSE i \in DOMAIN c : c[i].key = k

\* Fault: a lookup leaves the entry where it is.
MoveToEndSkipped(c, k) == c

\* OrderedDict.move_to_end(key)
MoveToEnd(c, k) ==
    SelectSeq(c, LAMBDA e : e.key # k) \o <<c[CacheIndex(c, k)]>>

\* Fault: nothing is removed from a full cache.
PopNothing(c) == c

\* OrderedDict.popitem(last=False)
PopOldest(c) == Tail(c)

\* request_cache[key] = entry: a key already there keeps its place.
SetEntry(c, e) ==
    IF InCache(c, e.key)
    THEN [i \in DOMAIN c |-> IF c[i].key = e.key THEN e ELSE c[i]]
    ELSE Append(c, e)

\* The store of app.py 301-312 and 415-426.
Store(c, k, payload, status, t) ==
    LET c1 == IF Len(c) >= MAX_CACHE_SIZE THEN PopOldest(c) ELSE c
    IN  SetEntry(c1, [key |-> k, response |-> payload,
                      status_code |-> status, timestamp |-> t])

\* ----------------------------------------------------------------- requests

NoPayload == [none |-> TRUE]
NoSend == [valid |-> FALSE]

\* The last step was not an operation of the admin routes on the gate.
NoGateOp == [e |-> "none"]

IdleReq ==
    [pc |-> "idle", sender |-> None, message |-> None, request_id |-> None,
     idempotency_key |-> None, thread_id |-> NoThread, retry_count |-> 0,
     elapsed |-> 0, polling_interval |-> 0, timeout_count |-> 0,
     reply |-> None, payload |-> NoPayload, status_code |-> 0,
     loaded |-> 0,
     \* history of the request, for the properties
     hit |-> FALSE, gate_off |-> FALSE, sent |-> FALSE, miss |-> FALSE,
     ok |-> FALSE, n_create |-> 0, n_run |-> 0, n_poll |-> 0,
     n_fetch |-> 0, outcome |-> "none", fetched |-> None,
     counted |-> FALSE, rebound |-> FALSE, waited |-> 0,
     fetch_ok |-> FALSE, ord |-> 0, fails |-> 0, n_rebind |-> 0,
     n_post |-> 0, n_runpost |-> 0, run_id |-> FALSE, msg_id |-> FALSE,
     streak |-> 0, create_failed |-> FALSE,
     prev |-> NoSend, replay_of |-> [valid |-> FALSE]]

Init ==
    /\ nomor_to_thread = EmptyMap
    /\ threads_file = [valid |-> TRUE, data |-> EmptyMap]
    /\ bot_status = EmptyMap
    /\ unanswered_messages = EmptyMap
    /\ conversations = <<>>
    /\ request_cache = <<>>
    /\ now = 0
    /\ assistant_id_set \in BOOLEAN
    /\ last_assistant = <<>>
    /\ ask_count = 0
    /\ req = [r \in Slots |-> IdleReq]
    /\ prev_send = NoSend
    /\ handled = EmptyMap
    /\ gate_log = <<>>
    /\ gate_op = NoGateOp

\* ------------------------------------------------------ history (not code)

\* The record kept of a handled request that carried key k; a later store
\* marks the records of the handlings before it.  `touched` is the ordinal
\* of the latest request that stored or looked up the key's cache entry.
HandledAfter(h, k, payload, status, t, stored, n) ==
    LET h1 == IF stored
              THEN [x \in DOMAIN h |-> [h[x] EXCEPT !.store_since = TRUE]]
              ELSE h
    IN  IF k = None THEN h1
        ELSE Bind(h1, k, [valid |-> TRUE, payload |-> payload, status |-> status,
                          at |-> t, store_since |-> FALSE, touched |-> n])

\* Whether event ev can open a run of gate events: an inbound message that
\* found the gate disabled and the counter absent or zero.
Opens(ev) == ev.e = "in" /\ ev.first

\* The run of gate events after ev: three inbound messages to a disabled
\* gate, an admin reply, one more inbound message, all for one sender.
GateLogAfter(log, ev) ==
    LET restart == IF Opens(ev) THEN <<ev>> ELSE <<>>
        n == Len(log)
    IN  IF n = 0 \/ n = 5 THEN restart
        ELSE IF ev.s # log[1].s THEN restart
        ELSE IF n \in {1, 2} THEN (IF ev.e = "in" THEN Append(log, ev) ELSE restart)
        ELSE IF n = 3 THEN (IF ev.e = "admin" THEN Append(log, ev) ELSE restart)
        ELSE IF ev.e \in {"in", "bot"} THEN Append(log, ev) ELSE restart

GateEvent(e, s, v, first, u) == [e |-> e, s |-> s, v |-> v, first |-> first, u |-> u]

\* ------------------------------------------------------------- chat logger

\* chat_logger.log_message: a sender without a conversation gets one.
LogConversation(convs, sender) ==
    IF \E i \in DOMAIN convs : convs[i] = sender THEN convs
    ELSE Append(convs, sender)

\* f"conv_{sender.split('@')[0]}"
ConversationId(sender) == <<"conv_">> \o BeforeAt(sender)

\* chat_logger.get_conversation: the first conversation with that id.
HasConversation(convs, chat_id) ==
    \E i \in DOMAIN convs : ConversationId(convs[i]) = chat_id

get_conversation(convs, chat_id) ==
    LET i == CHOOSE j \in DOMAIN convs :
                 /\ ConversationId(convs[j]) = chat_id
                 /\ \A k \in 1..(j - 1) : ConversationId(convs[k]) # chat_id
    IN  convs[i]

\* ------------------------------------------------------------------- /ask

\* Fault: a sender without a status counts as disabled.
IsDisabledOrUnknown(bs, sender) == sender \notin DOMAIN bs \/ bs[sender] = FALSE

\* Fault: the gate is not consulted.
IsDisabledIgnored(bs, sender) == FALSE

IsDisabled(bs, sender) == sender \in DOMAIN bs /\ bs[sender] = FALSE

\* Fault: the count is set to 1 whether or not the sender has one.
NextCountStuck(um, sender) == 1

\* Lines 270-273: the unanswered count after one more inbound message.
NextCount(um, sender) == IF sender \in DOMAIN um THEN um[sender] + 1 ELSE 1

\* The response bodies of ask().
DisabledPayload(sender, count, request_id, t) ==
    [response |-> None, sender |-> sender, bot_disabled |-> TRUE,
     unanswered_count |-> count,
     message |-> "Bot is disabled for this sender. Message logged for manual response.",
     request_id |-> request_id, timestamp |-> t]

ReplyPayload(sender, reply, request_id, t) ==
    [response |-> reply, sender |-> sender, request_id |-> request_id,
     timestamp |-> t]

ErrorPayload(text, request_id) == [error |-> text, request_id |-> request_id]

ConfigErrorPayload(text, sender) == [error |-> text, sender |-> sender]

\* Fault: the cache is used whether or not the request has a key.
HasKeyAlways(key) == TRUE

\* `if idempotency_key:` (app.py 228, 301, 415): a key that is not None and
\* not empty.
HasKey(key) == key # None

\* The end of a request: the response is built, stored in the cache when
\* `store` says so and the request has a key, and the histories are updated.
Complete(r, rq, payload, status, cache0, store, logged, ev) ==
    LET k == rq.idempotency_key
        stored == store /\ HasKey(k)
    IN  /\ request_cache' =
               IF stored THEN Store(cache0, k, payload, status, now) ELSE cache0
        /\ req' = [req EXCEPT ![r] =
               [rq EXCEPT !.pc = "done", !.payload = payload,
                          !.status_code = status]]
        /\ conversations' =
               IF logged THEN LogConversation(conversations, rq.sender)
               ELSE conversations
        /\ handled' = IF rq.hit THEN [handled EXCEPT ![k].touched = rq.ord]
                      ELSE HandledAfter(handled, k, payload, status, now,
                                        stored, rq.ord)
        /\ gate_log' = IF rq.sender = None THEN gate_log
                       ELSE GateLogAfter(gate_log, ev)
        /\ gate_op' = NoGateOp
        /\ prev_send' =
               IF rq.sent
               THEN [valid |-> TRUE, nomor |-> rq.sender, thread |-> rq.thread_id,
                     n_create |-> rq.n_create, ok |-> rq.ok, miss |-> rq.miss,
                     rebound |-> rq.rebound]
               ELSE prev_send

\* ask(), app.py 217-318: the cache lookup, the field checks and the bot gate.
AskStart(r, sender, message, hdr, rid, cap) ==
    /\ req[r].pc \in {"idle", "done"}
    /\ ask_count < cap
    /\ ask_count' = ask_count + 1
    /\ LET request_id == IF rid # None THEN rid
                         ELSE <<"req_", ToString(ask_count + 1)>>
           key == IF hdr # None THEN hdr ELSE rid
           swept == IF HasKey(key) THEN Sweep(request_cache, now)
                    ELSE request_cache
           rq == [IdleReq EXCEPT !.sender = sender, !.message = message,
                                 !.request_id = request_id,
                                 !.ord = ask_count + 1,
                                 !.idempotency_key = key,
                                 !.gate_off = (sender \in DOMAIN bot_status
                                               /\ ~bot_status[sender]),
                                 !.replay_of =
                                     IF key \in DOMAIN handled
                                     THEN [handled[key] EXCEPT
                                              !.at = now - handled[key].at]
                                     ELSE [valid |-> FALSE]]
           count == NextCount(unanswered_messages, sender)
       IN  IF HasKey(key) /\ InCache(swept, key)
           THEN \* a duplicate: the cached response, refreshed
                /\ Complete(r, [rq EXCEPT !.hit = TRUE],
                            swept[CacheIndex(swept, key)].response,
                            swept[CacheIndex(swept, key)].status_code,
                            MoveToEnd(swept, key), FALSE, FALSE,
                            GateEvent("hit", sender, 0, FALSE, FALSE))
                /\ UNCHANGED unanswered_messages
           ELSE IF sender = None /\ message = None /\ rid = None
           THEN /\ Complete(r, rq, ErrorPayload("No data provided", request_id),
                            400, swept, FALSE, FALSE,
                            GateEvent("err", sender, 0, FALSE, FALSE))
                /\ UNCHANGED unanswered_messages
           ELSE IF sender = None \/ message = None
           THEN /\ Complete(r, rq,
                            ErrorPayload("Missing required fields", request_id),
                            400, swept, FALSE, FALSE,
                            GateEvent("err", sender, 0, FALSE, FALSE))
                /\ UNCHANGED unanswered_messages
           ELSE IF IsDisabled(bot_status, sender)
           THEN /\ count <= MaxCount
                /\ unanswered_messages' = Bind(unanswered_messages, sender, count)
                /\ Complete(r, [rq EXCEPT !.counted = TRUE],
                            DisabledPayload(sender, count, request_id, now),
                            200, swept, TRUE, TRUE,
                            GateEvent("in", sender, count, count = 1, FALSE))
           ELSE /\ request_cache' = swept
                /\ req' = [req EXCEPT ![r] = [rq EXCEPT !.pc = "analytics"]]
                /\ gate_op' = NoGateOp
                /\ UNCHANGED <<unanswered_messages, conversations, handled,
                               gate_log, prev_send>>
    /\ UNCHANGED <<nomor_to_thread, threads_file, bot_status, now,
                   assistant_id_set, last_assistant>>

\* The bot-disabled branch of ask() step by step, as the threads of the
\* server run it (socketio.run with async_mode 'threading', no lock around
\* the counters).  Lines 217-265: a request without idempotency key, with
\* sender and message, finds the gate of its sender disabled.
InboundStart(r, sender, cap) ==
    /\ req[r].pc \in {"idle", "done"}
    /\ ask_count < cap
    /\ IsDisabled(bot_status, sender)
    /\ ask_count' = ask_count + 1
    /\ req' = [req EXCEPT ![r] =
           [IdleReq EXCEPT !.sender = sender, !.message = TextMessage,
                           !.request_id = <<"req_", ToString(ask_count + 1)>>,
                           !.ord = ask_count + 1, !.gate_off = TRUE,
                           !.pc = "gate_load"]]
    /\ gate_op' = NoGateOp
    /\ UNCHANGED <<nomor_to_thread, threads_file, bot_status,
                   unanswered_messages, conversations, request_cache, now,
                   assistant_id_set, last_assistant, prev_send, handled,
                   gate_log>>

\* Lines 270-271: the membership test and the read of the count
\* (`unanswered_messages[sender] += 1` reads, adds and stores).
GateLoad(r) ==
    LET rq == req[r]
    IN  /\ rq.pc = "gate_load"
        /\ req' = [req EXCEPT ![r] =
               [rq EXCEPT !.pc = "gate_store",
                          !.loaded = IF rq.sender \in DOMAIN unanswered_messages
                                     THEN unanswered_messages[rq.sender]
                                     ELSE 0]]
        /\ gate_op' = NoGateOp
        /\ UNCHANGED <<nomor_to_thread, threads_file, bot_status,
                       unanswered_messages, conversations, request_cache, now,
                       assistant_id_set, last_assistant, ask_count, prev_send,
                       handled, gate_log>>

\* Lines 271 and 273: the store of the count.
GateStore(r) ==
    LET rq == req[r]
    IN  /\ rq.pc = "gate_store"
        /\ rq.loaded + 1 <= MaxCount
        /\ unanswered_messages' =
               Bind(unanswered_messages, rq.sender, rq.loaded + 1)
        /\ req' = [req EXCEPT ![r] = [rq EXCEPT !.pc = "gate_report",
                                                !.counted = TRUE]]
        /\ gate_op' = NoGateOp
        /\ UNCHANGED <<nomor_to_thread, threads_file, bot_status,
                       conversations, request_cache, now, assistant_id_set,
                       last_assistant, ask_count, prev_send, handled, gate_log>>

\* Lines 275-315: the message is logged and the response is built from the
\* count the dictionary holds now.
GateReport(r) ==
    LET rq == req[r]
        count == unanswered_messages[rq.sender]
    IN  /\ rq.pc = "gate_report"
        /\ Complete(r, rq, DisabledPayload(rq.sender, count, rq.request_id, now),
                    200, request_cache, TRUE, TRUE,
                    GateEvent("in", rq.sender, count, count = 1, FALSE))
        /\ UNCHANGED <<nomor_to_thread, threads_file, bot_status,
                       unanswered_messages, now, assistant_id_set,
                       last_assistant, ask_count>>

\* ------------------------------------------------------------ admin routes

\* Fault: the admin reply leaves the unanswered count as it is.
AdminSendMessageNoReset(recipient, use_bot, logged) ==
    /\ bot_status' = Bind(bot_status, recipient, use_bot)
    /\ conversations' = IF logged THEN LogConversation(conversations, recipient)
                        ELSE conversations
    /\ gate_log' = GateLogAfter(gate_log,
                                GateEvent("admin", recipient, 0, FALSE, use_bot))
    /\ gate_op' = [e |-> "admin", s |-> recipient, u |-> use_bot]
    /\ UNCHANGED <<nomor_to_thread, threads_file, request_cache, now,
                   assistant_id_set, last_assistant, ask_count, req, prev_send,
                   handled, unanswered_messages>>

\* send_message(), admin_routes.py 262-331.  `logged` is whether the code
\* got as far as chat_logger.log_message.
AdminSendMessage(recipient, use_bot, logged) ==
    /\ bot_status' = Bind(bot_status, recipient, use_bot)
    /\ unanswered_messages' = Bind(unanswered_messages, recipient, 0)
    /\ conversations' = IF logged THEN LogConversation(conversations, recipient)
                        ELSE conversations
    /\ gate_log' = GateLogAfter(gate_log,
                                GateEvent("admin", recipient, 0, FALSE, use_bot))
    /\ gate_op' = [e |-> "admin", s |-> recipient, u |-> use_bot]
    /\ UNCHANGED <<nomor_to_thread, threads_file, request_cache, now,
                   assistant_id_set, last_assistant, ask_count, req, prev_send,
                   handled>>

\* toggle_bot(), admin_routes.py 333-375.
ToggleBot(chat_id, enabled) ==
    /\ HasConversation(conversations, chat_id)
    /\ LET sender == get_conversation(conversations, chat_id)
       IN  /\ bot_status' = Bind(bot_status, sender, enabled)
           /\ gate_log' = GateLogAfter(gate_log,
                              GateEvent("toggle", sender, 0, FALSE, FALSE))
           /\ gate_op' = [e |-> "toggle", s |-> sender, u |-> enabled]
    /\ UNCHANGED <<nomor_to_thread, threads_file, unanswered_messages,
                   conversations, request_cache, now, assistant_id_set,
                   last_assistant, ask_count, req, prev_send, handled>>

\* Time passes.
TickSteps == {150, 151}

Tick(d) ==
    /\ now + d <= MaxTime
    /\ now' = now + d
    /\ gate_op' = NoGateOp
    /\ UNCHANGED <<nomor_to_thread, threads_file, bot_status,
                   unanswered_messages, conversations, request_cache,
                   assistant_id_set, last_assistant, ask_count, req, prev_send,
                   handled, gate_log>>

\* ------------------------------------------------- the remote service

\* POST /threads answered 200 with an id: the next thread id.
NewThread == Len(last_assistant) + 1

\* Fault: the registry is changed and the file is left as it was.
SavedLater(m, disk_ok) == threads_file

\* What save_threads leaves on disk: the registry, or a truncated file when
\* the write fails.
Saved(m, disk_ok) ==
    IF disk_ok THEN [valid |-> TRUE, data |-> m]
    ELSE [valid |-> FALSE, data |-> EmptyMap]

\* The registry after delete_thread_for_nomor: the first of the candidate
\* keys that is bound is removed (lines 152-190 probe the keys in the order of
\* get_thread_id_for_nomor).
RECURSIVE FirstKey(_, _)
FirstKey(m, cs) ==
    IF cs = <<>> THEN None
    ELSE IF Head(cs) \in DOMAIN m THEN Head(cs)
    ELSE FirstKey(m, Tail(cs))

delete_thread_for_nomor(m, nomor) ==
    IF FirstKey(m, Candidates(nomor)) = None THEN m
    ELSE Unbind(m, FirstKey(m, Candidates(nomor)))

\* ---------------------------------------------- registry administration

\* delete_thread(), admin_routes.py 445-500, with delete_thread_for_nomor.
\* The file is written only when a binding was removed.
DeleteThread(phone_number, disk_ok) ==
    LET m == delete_thread_for_nomor(nomor_to_thread, phone_number)
    IN  /\ nomor_to_thread' = m
        /\ threads_file' = IF m # nomor_to_thread THEN Saved(m, disk_ok)
                           ELSE threads_file
        /\ m = nomor_to_thread => disk_ok
        /\ gate_op' = NoGateOp
        /\ UNCHANGED <<bot_status, unanswered_messages, conversations,
                       request_cache, now, assistant_id_set, last_assistant,
                       ask_count, req, prev_send, handled, gate_log>>

\* clear_threads(), admin_routes.py 427-442, with clear_all_threads.
ClearThreads(disk_ok) ==
    /\ nomor_to_thread' = EmptyMap
    /\ threads_file' = Saved(EmptyMap, disk_ok)
    /\ gate_op' = NoGateOp
    /\ UNCHANGED <<bot_status, unanswered_messages, conversations,
                   request_cache, now, assistant_id_set, last_assistant,
                   ask_count, req, prev_send, handled, gate_log>>

\* reset_thread_for_nomor: a new thread is created and bound under the key
\* given; when the thread cannot be created nothing changes.
ResetThread(nomor, o, disk_ok) ==
    LET m == Bind(nomor_to_thread, nomor, NewThread)
    IN  /\ IF o = "fail"
           THEN /\ disk_ok
                /\ UNCHANGED <<nomor_to_thread, threads_file, last_assistant>>
           ELSE /\ Len(last_assistant) < MaxThreads
                /\ last_assistant' = Append(last_assistant, None)
                /\ nomor_to_thread' = m
                /\ threads_file' = Saved(m, disk_ok)
        /\ gate_op' = NoGateOp
        /\ UNCHANGED <<bot_status, unanswered_messages, conversations,
                       request_cache, now, assistant_id_set, ask_count, req,
                       prev_send, handled, gate_log>>

\* The process is started again after a request: the module-level state is
\* built anew, the registry from the file (assistant_thread_manager.py
\* 13-18).  A file that is not JSON makes json.load raise and the process
\* does not start.
Restart ==
    /\ req[1].pc = "done"
    /\ threads_file.valid
    /\ nomor_to_thread' = threads_file.data
    /\ bot_status' = EmptyMap
    /\ unanswered_messages' = EmptyMap
    /\ request_cache' = <<>>
    /\ req' = [r \in Slots |-> IdleReq]
    /\ prev_send' = NoSend
    /\ handled' = EmptyMap
    /\ gate_log' = <<>>
    /\ gate_op' = NoGateOp
    /\ UNCHANGED <<threads_file, conversations, now, assistant_id_set,
                   last_assistant, ask_count>>

\* ------------------------------------------------------ steps of a request

\* A step that leaves the request in progress.
Continue(r, rq) ==
    /\ req' = [req EXCEPT ![r] = rq]
    /\ gate_op' = NoGateOp
    /\ UNCHANGED <<request_cache, conversations, handled, gate_log, prev_send>>

\* send_message_and_get_response has returned `reply`: ask(), app.py 376-429.
\* (The response_time field of the body is left out.)
Respond(r, rq, reply) ==
    IF reply = None
    THEN Complete(r, rq,
                  ConfigErrorPayload("Tidak ada respons dari Assistant", rq.sender),
                  500, request_cache, FALSE, FALSE,
                  GateEvent("bot", rq.sender, 0, FALSE, FALSE))
    ELSE Complete(r, [rq EXCEPT !.reply = reply],
                  ReplyPayload(rq.sender, reply, rq.request_id, now),
                  200, request_cache, TRUE, TRUE,
                  GateEvent("bot", rq.sender, 0, FALSE, FALSE))

\* analytics.analyze_chat_message(sender, message), app.py 322, with
\* ensure_analytics_thread_for_nomor.  o is what the remote service and the
\* disk do: "nothread" (no thread could be had), "diskfail" (a thread was
\* created and the save failed), "bound" (a thread is there and the analysis
\* run wrote nothing), "analysed" (the analysis run wrote its result).
Analytics(r, o) ==
    LET rq == req[r]
        analytics_nomor == WithAna(rq.sender)
        found == get_thread_id_for_nomor(nomor_to_thread, analytics_nomor)
        created == found = NoThread /\ o # "nothread"
        thread_id == IF found # NoThread THEN found ELSE NewThread
        m == IF created
             THEN set_thread_id_for_nomor(nomor_to_thread, analytics_nomor, thread_id)
             ELSE nomor_to_thread
    IN  /\ rq.pc = "analytics"
        /\ found # NoThread => o \in {"bound", "analysed"}
        /\ created => Len(last_assistant) < MaxThreads
        /\ nomor_to_thread' = m
        /\ threads_file' = IF created THEN Saved(m, o # "diskfail")
                           ELSE threads_file
        /\ last_assistant' =
               LET la == IF created THEN Append(last_assistant, None)
                         ELSE last_assistant
               IN  IF o = "analysed" THEN [la EXCEPT ![thread_id] = AnalysisText]
                   ELSE la
        /\ Continue(r, [rq EXCEPT !.pc = "send"])
        /\ UNCHANGED <<bot_status, unanswered_messages, now, assistant_id_set,
                       ask_count>>

\* ask(), app.py 358-375, and send_message_and_get_response up to its first
\* remote call (lines 224-265): the configuration checks, the message check
\* and the registry lookup.
SendStart(r) ==
    LET rq == req[r]
        thread_id == get_thread_id_for_nomor(nomor_to_thread, rq.sender)
        sq == [rq EXCEPT !.sent = TRUE, !.prev = prev_send,
                         !.miss = (thread_id = NoThread),
                         !.thread_id = thread_id]
    IN  /\ rq.pc = "send"
        /\ IF ~assistant_id_set
           THEN Complete(r, rq,
                         ConfigErrorPayload("OpenAI Assistant ID tidak dikonfigurasi",
                                            rq.sender),
                         500, request_cache, FALSE, FALSE,
                         GateEvent("bot", rq.sender, 0, FALSE, FALSE))
           ELSE IF rq.message = None \/ ~IsStr(rq.message)
           THEN Respond(r, [rq EXCEPT !.sent = TRUE, !.prev = prev_send], F_BADMSG)
           ELSE IF thread_id = NoThread
           THEN Continue(r, [sq EXCEPT !.pc = "create"])
           ELSE Continue(r, [sq EXCEPT !.pc = "verify1"])
        /\ UNCHANGED <<nomor_to_thread, threads_file, bot_status,
                       unanswered_messages, now, assistant_id_set,
                       last_assistant, ask_count>>

\* Fault: a failed creation stores what it got, no thread, under the sender.
CreateThreadBindsNone(r, o, disk_ok) ==
    LET rq == req[r]
        m == set_thread_id_for_nomor(nomor_to_thread, rq.sender, NewThread)
        cq == [rq EXCEPT !.thread_id = NewThread, !.n_create = @ + 1]
    IN  /\ rq.pc = "create"
        /\ IF o = "fail"
           THEN /\ disk_ok
                /\ Respond(r, [rq EXCEPT !.create_failed = TRUE], F_CREATE)
                /\ nomor_to_thread' =
                       set_thread_id_for_nomor(nomor_to_thread, rq.sender,
                                               NoThread)
                /\ UNCHANGED <<threads_file, last_assistant>>
           ELSE /\ Len(last_assistant) < MaxThreads
                /\ last_assistant' = Append(last_assistant, None)
                /\ nomor_to_thread' = m
                /\ threads_file' = Saved(m, disk_ok)
                /\ IF disk_ok THEN Continue(r, [cq EXCEPT !.pc = "verify1"])
                   ELSE Respond(r, cq, Unexpected(E_DISK))
        /\ UNCHANGED <<bot_status, unanswered_messages, now, assistant_id_set,
                       ask_count>>

\* create_new_thread and lines 258-262: a sender without a thread gets one.
\* The save of line 262 is outside every inner try: when it fails the
\* exception reaches the last handler of the function.
CreateThread(r, o, disk_ok) ==
    LET rq == req[r]
        m == set_thread_id_for_nomor(nomor_to_thread, rq.sender, NewThread)
        cq == [rq EXCEPT !.thread_id = NewThread, !.n_create = @ + 1]
    IN  /\ rq.pc = "create"
        /\ IF o = "fail"
           THEN /\ disk_ok
                /\ Respond(r, [rq EXCEPT !.create_failed = TRUE], F_CREATE)
                /\ UNCHANGED <<nomor_to_thread, threads_file, last_assistant>>
           ELSE /\ Len(last_assistant) < MaxThreads
                /\ last_assistant' = Append(last_assistant, None)
                /\ nomor_to_thread' = m
                /\ threads_file' = Saved(m, disk_ok)
                /\ IF disk_ok THEN Continue(r, [cq EXCEPT !.pc = "verify1"])
                   ELSE Respond(r, cq, Unexpected(E_DISK))
        /\ UNCHANGED <<bot_status, unanswered_messages, now, assistant_id_set,
                       ask_count>>

\* Fault: the thread is replaced after one failed check.
Verify1Hasty(r, o) ==
    LET rq == req[r]
    IN  /\ rq.pc = "verify1"
        /\ Continue(r, [rq EXCEPT !.pc = IF o = "bad" THEN "recreate" ELSE "post",
                                  !.retry_count = 0,
                                  !.fails = IF o = "bad" THEN @ + 1 ELSE 0])
        /\ UNCHANGED <<nomor_to_thread, threads_file, bot_status,
                       unanswered_messages, now, assistant_id_set,
                       last_assistant, ask_count>>

\* Lines 268-307: GET /threads/{id}; anything but a non-200 answer keeps the
\* thread (an exception is logged and ignored).
Verify1(r, o) ==
    LET rq == req[r]
    IN  /\ rq.pc = "verify1"
        /\ Continue(r, [rq EXCEPT !.pc = IF o = "bad" THEN "verify2" ELSE "post",
                                  !.retry_count = 0,
                                  !.fails = IF o = "bad" THEN @ + 1 ELSE 0])
        /\ UNCHANGED <<nomor_to_thread, threads_file, bot_status,
                       unanswered_messages, now, assistant_id_set,
                       last_assistant, ask_count>>

\* Lines 283-303: the second check, two seconds later.
Verify2(r, o) ==
    LET rq == req[r]
    IN  /\ rq.pc = "verify2"
        /\ Continue(r, [rq EXCEPT !.pc = IF o = "bad" THEN "recreate" ELSE "post",
                                  !.retry_count = 0,
                                  !.fails = IF o = "bad" THEN @ + 1 ELSE 0])
        /\ UNCHANGED <<nomor_to_thread, threads_file, bot_status,
                       unanswered_messages, now, assistant_id_set,
                       last_assistant, ask_count>>

\* Lines 290-300: the thread failed both checks and is replaced.  A failing
\* save is caught by the handler of line 304 and the new thread is used.
Recreate(r, o, disk_ok) ==
    LET rq == req[r]
        m == set_thread_id_for_nomor(nomor_to_thread, rq.sender, NewThread)
    IN  /\ rq.pc = "recreate"
        /\ IF o = "fail"
           THEN /\ disk_ok
                /\ Respond(r, [rq EXCEPT !.create_failed = TRUE], F_THREAD)
                /\ UNCHANGED <<nomor_to_thread, threads_file, last_assistant>>
           ELSE /\ Len(last_assistant) < MaxThreads
                /\ last_assistant' = Append(last_assistant, None)
                /\ nomor_to_thread' = m
                /\ threads_file' = Saved(m, disk_ok)
                /\ Continue(r, [rq EXCEPT !.thread_id = NewThread,
                                          !.n_create = @ + 1, !.pc = "post",
                                          !.retry_count = 0,
                                          !.rebound = TRUE, !.fails = 0,
                                          !.n_rebind = @ + 1])
        /\ UNCHANGED <<bot_status, unanswered_messages, now, assistant_id_set,
                       ask_count>>

\* Fault: after the last failed post the run is created all the same.
PostMessageSkipped(r, o) ==
    LET rq == req[r]
        nq == [rq EXCEPT !.n_post = @ + 1]
        pq == [nq EXCEPT !.retry_count = @ + 1]
    IN  /\ rq.pc = "post"
        /\ IF o = "ok"
           THEN Continue(r, [nq EXCEPT !.pc = "run", !.retry_count = 0,
                                       !.fails = 0, !.msg_id = TRUE])
           ELSE IF o = "noid"
           THEN Respond(r, nq, F_POST)
           ELSE IF o = "404" /\ rq.retry_count = 0
           THEN Continue(r, [nq EXCEPT !.pc = "postcheck", !.fails = @ + 1])
           ELSE IF pq.retry_count < max_retries
           THEN Continue(r, pq)
           ELSE Continue(r, [pq EXCEPT !.pc = "run", !.retry_count = 0])
        /\ UNCHANGED <<nomor_to_thread, threads_file, bot_status,
                       unanswered_messages, now, assistant_id_set,
                       last_assistant, ask_count>>

\* Lines 315-377: POST /threads/{id}/messages, at most max_retries times.
\* "noid" is a 200 answer without an id.
PostMessage(r, o) ==
    LET rq == req[r]
        nq == [rq EXCEPT !.n_post = @ + 1]
        pq == [nq EXCEPT !.retry_count = @ + 1]
    IN  /\ rq.pc = "post"
        /\ IF o = "ok"
           THEN Continue(r, [nq EXCEPT !.pc = "run", !.retry_count = 0,
                                       !.fails = 0, !.msg_id = TRUE])
           ELSE IF o = "noid"
           THEN Respond(r, nq, F_POST)
           ELSE IF o = "404" /\ rq.retry_count = 0
           THEN Continue(r, [nq EXCEPT !.pc = "postcheck", !.fails = @ + 1])
           ELSE IF pq.retry_count < max_retries
           THEN Continue(r, pq)
           ELSE Respond(r, pq, F_POST)
        /\ UNCHANGED <<nomor_to_thread, threads_file, bot_status,
                       unanswered_messages, now, assistant_id_set,
                       last_assistant, ask_count>>

\* Lines 335-361: the first post was answered 404 and the thread is checked.
PostCheck(r, o) ==
    LET rq == req[r]
    IN  /\ rq.pc = "postcheck"
        /\ IF o = "404"
           THEN Continue(r, [rq EXCEPT !.pc = "postrecreate", !.fails = @ + 1])
           ELSE Continue(r, [rq EXCEPT !.pc = "post", !.retry_count = @ + 1,
                                       !.fails = IF o = "200" THEN 0 ELSE @])
        /\ UNCHANGED <<nomor_to_thread, threads_file, bot_status,
                       unanswered_messages, now, assistant_id_set,
                       last_assistant, ask_count>>

\* Lines 343-355: the thread is gone and is replaced.  A failing save is
\* caught by the handler of line 368, which also counts the attempt.
PostRecreate(r, o, disk_ok) ==
    LET rq == req[r]
        m == set_thread_id_for_nomor(nomor_to_thread, rq.sender, NewThread)
    IN  /\ rq.pc = "postrecreate"
        /\ IF o = "fail"
           THEN /\ disk_ok
                /\ Respond(r, [rq EXCEPT !.create_failed = TRUE], F_THREAD)
                /\ UNCHANGED <<nomor_to_thread, threads_file, last_assistant>>
           ELSE /\ Len(last_assistant) < MaxThreads
                /\ last_assistant' = Append(last_assistant, None)
                /\ nomor_to_thread' = m
                /\ threads_file' = Saved(m, disk_ok)
                /\ Continue(r, [rq EXCEPT !.thread_id = NewThread,
                                          !.n_create = @ + 1, !.pc = "post",
                                          !.retry_count = @ + 1,
                                          !.rebound = TRUE, !.fails = 0,
                                          !.n_rebind = @ + 1])
        /\ UNCHANGED <<bot_status, unanswered_messages, now, assistant_id_set,
                       ask_count>>

\* Durations are counted in half seconds: the polling interval takes the
\* values 2, 3, 4.5 and 5 seconds.
HalfSeconds(seconds) == 2 * seconds

Min(a, b) == IF a < b THEN a ELSE b

\* Lines 380-410: POST /threads/{id}/runs, at most max_retries times; then
\* wait_for_run_completion starts (lines 104-108).
CreateRun(r, o) ==
    LET rq == req[r]
        nq == [rq EXCEPT !.n_runpost = @ + 1]
        pq == [nq EXCEPT !.retry_count = @ + 1]
    IN  /\ rq.pc = "run"
        /\ IF o = "ok"
           THEN Continue(r, [nq EXCEPT !.pc = "poll", !.n_run = @ + 1,
                                !.run_id = TRUE,
                                !.elapsed = 0,
                                !.polling_interval =
                                    HalfSeconds(initial_polling_interval),
                                !.timeout_count = 0])
           ELSE IF o = "noid"
           THEN Respond(r, nq, F_RUN)
           ELSE IF pq.retry_count < max_retries
           THEN Continue(r, pq)
           ELSE Respond(r, pq, F_RUN)
        /\ UNCHANGED <<nomor_to_thread, threads_file, bot_status,
                       unanswered_messages, now, assistant_id_set,
                       last_assistant, ask_count>>

\* Fault: a wait that returned without a completed run is treated as a
\* completed one.
ReturnedToFetch(rq, outcome, at) ==
    [rq EXCEPT !.pc = "fetch", !.outcome = outcome, !.waited = at,
               !.retry_count = 0, !.elapsed = 0, !.polling_interval = 0,
               !.timeout_count = 0]

\* wait_for_run_completion has returned: its locals are gone, the time it
\* took is kept for the properties.
Returned(rq, outcome, at) ==
    [rq EXCEPT !.pc = IF outcome = "completed" THEN "fetch" ELSE "fallback",
               !.outcome = outcome, !.waited = at, !.retry_count = 0,
               !.elapsed = 0, !.polling_interval = 0, !.timeout_count = 0]

\* Fault: the wait limit is not looked at after a sleep.
SleptOn(rq) == rq

\* The end of one pass of the loop of line 112 that slept: the loop goes on
\* while the wait limit is not reached.
Slept(rq) ==
    IF rq.elapsed < HalfSeconds(max_wait_time) THEN rq
    ELSE Returned(rq, "timed_out", rq.elapsed)

PollOutcomes ==
    {"completed", "in_progress", "failed", "cancelled", "expired", "error",
     "timeout", "badbody"}

\* One pass of the loop of wait_for_run_completion, lines 112-181.  o is the
\* answer ("error": a non-200 answer or an exception of the request;
\* "timeout": no answer within the request timeout; "badbody": a 200 answer
\* whose body cannot be read, so that line 137 resets the count and the
\* handler of line 173 counts one), lat the time the answer took, text what the
\* assistant wrote if the run completed, cap the passes a behaviour may take.
Poll(r, o, lat, text, cap) ==
    LET rq == req[r]
        answered == rq.elapsed + lat
        count == IF o = "badbody" THEN 1 ELSE rq.timeout_count + 1
        pq == [rq EXCEPT !.n_poll = @ + 1, !.elapsed = answered,
                         \* failed polls in a row, counted up to one more
                         \* than the retries allowed
                         !.streak = IF o \in {"error", "timeout", "badbody"}
                                    THEN Min(@ + 1, max_timeout_retries + 1)
                                    ELSE 0]
        interval == Min((rq.polling_interval * 3) \div 2,
                        HalfSeconds(max_polling_interval))
    IN  /\ rq.pc = "poll"
        /\ o = "timeout" => lat = HalfSeconds(poll_request_timeout)
        /\ o \in {"in_progress", "error", "timeout", "badbody"}
               => rq.n_poll < cap
        /\ IF o \in {"error", "timeout", "badbody"}
           THEN IF count <= max_timeout_retries
                THEN Continue(r, Slept([pq EXCEPT
                         !.timeout_count = count,
                         !.elapsed = answered + rq.polling_interval]))
                ELSE Continue(r, Returned(pq, "errors", answered))
           ELSE IF o = "in_progress"
           THEN Continue(r, Slept([pq EXCEPT
                    !.timeout_count = 0,
                    !.polling_interval = interval,
                    !.elapsed = answered + interval]))
           ELSE Continue(r, Returned(pq, o, answered))
        /\ last_assistant' = IF o = "completed"
                             THEN [last_assistant EXCEPT ![rq.thread_id] = text]
                             ELSE last_assistant
        /\ UNCHANGED <<nomor_to_thread, threads_file, bot_status,
                       unanswered_messages, now, assistant_id_set, ask_count>>

\* Fault: the text is returned with its citation markers.
get_latest_unstripped(thread_id, o) ==
    IF o = "ok" THEN last_assistant[thread_id] ELSE None

\* get_latest_assistant_message: the text of the newest assistant message
\* with its citation markers removed, None when the call fails or the thread
\* has no assistant message.
get_latest_assistant_message(thread_id, o) ==
    IF o = "ok" THEN StripCitations(last_assistant[thread_id]) ELSE None

\* Lines 427-443: the run completed; the message is fetched at most
\* max_retries times.
FetchCompleted(r, o) ==
    LET rq == req[r]
        latest_message == get_latest_assistant_message(rq.thread_id, o)
        fq == [rq EXCEPT !.n_fetch = @ + 1,
                         !.fetched = last_assistant[rq.thread_id],
                         !.fetch_ok = (o = "ok")]
        pq == [fq EXCEPT !.retry_count = @ + 1]
    IN  /\ rq.pc = "fetch"
        /\ IF latest_message # None
           THEN Respond(r, [fq EXCEPT !.ok = TRUE], latest_message)
           ELSE IF pq.retry_count < max_retries
           THEN Continue(r, pq)
           ELSE Respond(r, pq, F_NORESP)
        /\ UNCHANGED <<nomor_to_thread, threads_file, bot_status,
                       unanswered_messages, now, assistant_id_set,
                       last_assistant, ask_count>>

\* Lines 416-425: the run did not complete; the message is fetched once.
FetchFallback(r, o) ==
    LET rq == req[r]
        latest_message == get_latest_assistant_message(rq.thread_id, o)
        fq == [rq EXCEPT !.n_fetch = @ + 1,
                         !.fetched = last_assistant[rq.thread_id],
                         !.fetch_ok = (o = "ok")]
    IN  /\ rq.pc = "fallback"
        /\ IF latest_message # None
           THEN Respond(r, fq, latest_message)
           ELSE Respond(r, fq, F_TECH)
        /\ UNCHANGED <<nomor_to_thread, threads_file, bot_status,
                       unanswered_messages, now, assistant_id_set,
                       last_assistant, ask_count>>

\* ------------------------------------------------------- the specifications

\* The registry and the orchestrator: one request at a time, without
\* idempotency keys, under every answer of the remote service and of the disk;
\* answers take no time and the polls that do not end the wait are bounded.
Next ==
    \/ \E s \in Senders, m \in {TextMessage, NumberMessage} :
           AskStart(1, s, m, None, None, MaxAsks)
    \/ \E o \in {"nothread", "diskfail", "bound", "analysed"} : Analytics(1, o)
    \/ SendStart(1)
    \/ \E o \in {"ok", "fail"}, d \in BOOLEAN : CreateThread(1, o, d)
    \/ \E o \in {"ok", "bad", "exc"} : Verify1(1, o)
    \/ \E o \in {"ok", "bad", "exc"} : Verify2(1, o)
    \/ \E o \in {"ok", "fail"}, d \in BOOLEAN : Recreate(1, o, d)
    \/ \E o \in {"ok", "noid", "404", "fail"} : PostMessage(1, o)
    \/ \E o \in {"404", "200", "other"} : PostCheck(1, o)
    \/ \E o \in {"ok", "fail"}, d \in BOOLEAN : PostRecreate(1, o, d)
    \/ \E o \in {"ok", "noid", "fail"} : CreateRun(1, o)
    \/ \E o \in PollOutcomes, text \in ReplyTexts :
           Poll(1, o, IF o = "timeout" THEN HalfSeconds(poll_request_timeout)
                      ELSE 0, text, MaxPolls)
    \/ \E o \in {"ok", "fail"} : FetchCompleted(1, o)
    \/ \E o \in {"ok", "fail"} : FetchFallback(1, o)

Spec == Init /\ [][Next]_vars

\* Admin operations and the passing of time are taken between requests.
Between == req[1].pc \in {"idle", "done"}

\* The request handler with its cache: one request at a time from one sender,
\* with and without idempotency keys, the gate switched by admin replies, the
\* passing of time; the remote service answers every call and every run
\* completes.
NextCache ==
    \/ \E m \in {TextMessage, None}, h \in {K1, None}, rid \in {None, K2} :
           /\ h # None => rid = None
           /\ AskStart(1, <<NUM>>, m, h, rid, MaxKeyed)
    \/ Analytics(1, "nothread")
    \/ SendStart(1)
    \/ CreateThread(1, "ok", TRUE)
    \/ Verify1(1, "ok")
    \/ PostMessage(1, "ok")
    \/ CreateRun(1, "ok")
    \/ Poll(1, "completed", 0, <<"a">>, MaxPolls)
    \/ FetchCompleted(1, "ok")
    \/ Between /\ \E u \in BOOLEAN : AdminSendMessage(<<NUM>>, u, FALSE)
    \/ Between /\ \E d \in TickSteps : Tick(d)

SpecCache == Init /\ [][NextCache]_vars

\* The bot gate: one request at a time from one sender, without idempotency
\* keys, admin replies and toggles between requests.
NextGate ==
    \/ \E m \in {TextMessage, None} :
           AskStart(1, <<NUM>>, m, None, None, MaxInbound)
    \/ Analytics(1, "nothread")
    \/ SendStart(1)
    \/ \E o \in {"ok", "fail"} : CreateThread(1, o, TRUE)
    \/ Verify1(1, "ok")
    \/ PostMessage(1, "ok")
    \/ CreateRun(1, "ok")
    \/ \E o \in {"completed", "failed"} : Poll(1, o, 0, <<"a">>, MaxPolls)
    \/ FetchCompleted(1, "ok")
    \/ FetchFallback(1, "ok")
    \/ Between /\ \E u \in BOOLEAN, l \in BOOLEAN : AdminSendMessage(<<NUM>>, u, l)
    \/ Between /\ \E e \in BOOLEAN : ToggleBot(ConversationId(<<NUM>>), e)

SpecGate == Init /\ [][NextGate]_vars

\* The wait for a run: one request at a time from one sender, the remote
\* service answers every call before the polls; a poll has every outcome and
\* is answered at once or after the request timeout, a completed run leaves
\* any of the reply texts, and the number of polls is only bounded by the code.
\* The 200 answer whose body cannot be read is followed in SpecWait.
NextPoll ==
    \/ AskStart(1, <<NUM>>, TextMessage, None, None, MaxAsks)
    \/ Analytics(1, "nothread")
    \/ SendStart(1)
    \/ CreateThread(1, "ok", TRUE)
    \/ Verify1(1, "ok")
    \/ PostMessage(1, "ok")
    \/ CreateRun(1, "ok")
    \/ \E o \in PollOutcomes \ {"badbody"},
          lat \in {0, HalfSeconds(poll_request_timeout)},
          text \in ReplyTexts :
           Poll(1, o, lat, text, HalfSeconds(max_wait_time))
    \/ \E o \in {"ok", "fail"} : FetchCompleted(1, o)
    \/ \E o \in {"ok", "fail"} : FetchFallback(1, o)

SpecPoll == Init /\ [][NextPoll]_vars

\* One wait followed poll by poll, with every answer a poll can get, the
\* 200 answer whose body cannot be read among them.
NextWait ==
    \/ AskStart(1, <<NUM>>, TextMessage, None, None, MaxWaits)
    \/ Analytics(1, "nothread")
    \/ SendStart(1)
    \/ CreateThread(1, "ok", TRUE)
    \/ Verify1(1, "ok")
    \/ PostMessage(1, "ok")
    \/ CreateRun(1, "ok")
    \/ \E o \in PollOutcomes :
           Poll(1, o, IF o = "timeout" THEN HalfSeconds(poll_request_timeout)
                      ELSE 0, <<"a">>, HalfSeconds(max_wait_time))
    \/ \E o \in {"ok", "fail"} : FetchCompleted(1, o)
    \/ \E o \in {"ok", "fail"} : FetchFallback(1, o)

SpecWait == Init /\ [][NextWait]_vars

\* The cache at capacity: one request at a time from one sender, each with
\* one of three keys in its header, answered by the bot or, after an admin
\* reply that disables the bot, without a reply; the entries of the cache
\* expire together when time passes between requests.
NextLRU ==
    \/ \E h \in Keys \cup {K3} :
           AskStart(1, <<NUM>>, TextMessage, h, None, MaxStores)
    \/ Analytics(1, "nothread")
    \/ SendStart(1)
    \/ CreateThread(1, "ok", TRUE)
    \/ Verify1(1, "ok")
    \/ PostMessage(1, "ok")
    \/ CreateRun(1, "ok")
    \/ Poll(1, "completed", 0, <<"a">>, MaxPolls)
    \/ FetchCompleted(1, "ok")
    \/ Between /\ \E u \in BOOLEAN : AdminSendMessage(<<NUM>>, u, FALSE)
    \/ Between /\ Tick(MaxTime)

SpecLRU == Init /\ [][NextLRU]_vars

\* The stripping of citation markers: one request whose run completes with
\* any of the texts of StripTexts, fetched at the first attempt.
NextStrip ==
    \/ AskStart(1, <<NUM>>, TextMessage, None, None, MaxStripped)
    \/ Analytics(1, "nothread")
    \/ SendStart(1)
    \/ CreateThread(1, "ok", TRUE)
    \/ Verify1(1, "ok")
    \/ PostMessage(1, "ok")
    \/ CreateRun(1, "ok")
    \/ \E text \in StripTexts : Poll(1, "completed", 0, text, MaxPolls)
    \/ FetchCompleted(1, "ok")

SpecStrip == Init /\ [][NextStrip]_vars

\* Two requests at a time: the server handles each request in a thread of
\* its own (async_mode='threading'), and nothing in ask() or below takes a
\* lock, so the steps of two requests of one sender interleave freely.  The
\* remote service answers every call and every run completes.
NextRace ==
    \E r \in Slots :
        \/ AskStart(r, <<NUM>>, TextMessage, None, None, MaxRacers)
        \/ Analytics(r, "nothread")
        \/ SendStart(r)
        \/ CreateThread(r, "ok", TRUE)
        \/ Verify1(r, "ok")
        \/ PostMessage(r, "ok")
        \/ CreateRun(r, "ok")
        \/ Poll(r, "completed", 0, <<"a">>, MaxPolls)
        \/ FetchCompleted(r, "ok")

SpecRace == Init /\ [][NextRace]_vars

\* Two submissions of one idempotency key handled by two threads.
NextDup ==
    \E r \in Slots :
        \/ AskStart(r, <<NUM>>, TextMessage, K1, None, MaxRacers)
        \/ Analytics(r, "nothread")
        \/ SendStart(r)
        \/ CreateThread(r, "ok", TRUE)
        \/ Verify1(r, "ok")
        \/ PostMessage(r, "ok")
        \/ CreateRun(r, "ok")
        \/ Poll(r, "completed", 0, <<"a">>, MaxPolls)
        \/ FetchCompleted(r, "ok")

SpecDup == Init /\ [][NextDup]_vars

\* Inbound messages of one sender whose gate an admin reply disabled before
\* the first of them, handled by two threads; no admin reply afterwards.
NextInbound ==
    \/ ask_count = 0 /\ \E l \in BOOLEAN : AdminSendMessage(<<NUM>>, FALSE, l)
    \/ \E r \in Slots :
           \/ InboundStart(r, <<NUM>>, MaxConcurrent)
           \/ GateLoad(r)
           \/ GateStore(r)
           \/ GateReport(r)

SpecInbound == Init /\ [][NextInbound]_vars

\* The registry and its file: one request at a time from one sender in its
\* raw or suffixed form, threads that fail their checks and are replaced,
\* the admin's deletions, a reset, restarts of the process, and a disk that
\* may fail at every write.
NextReg ==
    \/ \E s \in {<<NUM>>, <<NUM, SUF>>} :
           AskStart(1, s, TextMessage, None, None, MaxAsks)
    \/ \E o \in {"nothread", "bound"} : Analytics(1, o)
    \/ SendStart(1)
    \/ \E d \in BOOLEAN : CreateThread(1, "ok", d)
    \/ \E o \in {"ok", "bad"} : Verify1(1, o)
    \/ \E o \in {"ok", "bad"} : Verify2(1, o)
    \/ \E d \in BOOLEAN : Recreate(1, "ok", d)
    \/ PostMessage(1, "ok")
    \/ CreateRun(1, "ok")
    \/ Poll(1, "completed", 0, <<"a">>, MaxPolls)
    \/ FetchCompleted(1, "ok")
    \/ Between /\ \E n \in {<<NUM>>, <<NUM, SUF>>}, d \in BOOLEAN :
                      DeleteThread(n, d)
    \/ Between /\ \E d \in BOOLEAN : ClearThreads(d)
    \/ Between /\ \E o \in {"ok", "fail"}, d \in BOOLEAN :
                      ResetThread(<<NUM>>, o, d)
    \/ Restart

SpecReg == Init /\ [][NextReg]_vars

\* The exchange with the remote service of send_message_and_get_response,
\* with every answer the service can give to the checks, the posts and the
\* creation of the run.
NextSend ==
    \/ AskStart(1, <<NUM>>, TextMessage, None, None, MaxAsks)
    \/ Analytics(1, "nothread")
    \/ SendStart(1)
    \/ \E o \in {"ok", "fail"} : CreateThread(1, o, TRUE)
    \/ \E o \in {"ok", "bad", "exc"} : Verify1(1, o)
    \/ \E o \in {"ok", "bad", "exc"} : Verify2(1, o)
    \/ \E o \in {"ok", "fail"} : Recreate(1, o, TRUE)
    \/ \E o \in {"ok", "noid", "404", "fail"} : PostMessage(1, o)
    \/ \E o \in {"404", "200", "other"} : PostCheck(1, o)
    \/ \E o \in {"ok", "fail"} : PostRecreate(1, o, TRUE)
    \/ \E o \in {"ok", "noid", "fail"} : CreateRun(1, o)
    \/ \E o \in {"completed", "failed"} : Poll(1, o, 0, <<"a">>, MaxPolls)
    \/ \E o \in {"ok", "fail"} : FetchCompleted(1, o)
    \/ \E o \in {"ok", "fail"} : FetchFallback(1, o)

SpecSend == Init /\ [][NextSend]_vars

\* ------------------------------------------------------------- properties

Raw == <<NUM>>
Suffixed == <<NUM, SUF>>

\* The reply field of a response body; a body without the field has none.
ReplyOf(p) == IF "response" \in DOMAIN p THEN p.response ELSE None

\* C1: two calls of send_message_and_get_response made one after the other
\* for an identity string that had no binding under any candidate key, both
\* answered by the remote service without a failed check, cause exactly one
\* thread creation, and the second call uses the thread the first created.
C1_SingleThread ==
    LET rq == req[1]
    IN  (/\ rq.pc = "done" /\ rq.sent /\ rq.ok /\ ~rq.rebound
         /\ rq.prev.valid /\ rq.prev.nomor = rq.sender
         /\ rq.prev.miss /\ rq.prev.ok /\ ~rq.prev.rebound)
        => /\ rq.prev.n_create = 1
           /\ rq.n_create = 0
           /\ rq.thread_id = rq.prev.thread

\* C3: a thread bound under the raw number or under its suffixed form is
\* what the lookup returns for the raw form and for the suffixed form, so
\* that neither call goes on to create a thread.
C3_NormalizationEquivalence ==
    \A T \in 1..Len(last_assistant) :
        (Lookup(nomor_to_thread, Raw) = T \/ Lookup(nomor_to_thread, Suffixed) = T)
        => /\ get_thread_id_for_nomor(nomor_to_thread, Raw) = T
           /\ get_thread_id_for_nomor(nomor_to_thread, Suffixed) = T

\* C4: the thread a request uses for the primary conversation of sender X is
\* never the thread bound under analytics_X or analytics_X@s.whatsapp.net.
C4_NamespacesDistinct ==
    LET rq == req[1]
        X == BeforeAt(strip(rq.sender))
    IN  (rq.sent /\ rq.thread_id # NoThread)
        => /\ rq.thread_id # Lookup(nomor_to_thread, WithAna(X))
           /\ rq.thread_id # Lookup(nomor_to_thread, WithAna(WithSuffix(X)))

\* C5: whatever the remote service and the disk do,
\* send_message_and_get_response returns a non-empty string that is the
\* assistant's text or one of the fixed sentences, never the text of an error.
C5_NoRawError ==
    LET rq == req[1]
    IN  (rq.pc = "done" /\ rq.sent)
        => /\ rq.reply # None
           /\ \/ rq.reply \in FixedReplies
              \/ rq.fetch_ok /\ rq.reply = StripCitations(rq.fetched)

\* C7, as the spec states it: once a poll reports completed no further poll
\* is made, and the request returns the citation-stripped text of the latest
\* assistant message of the thread.
C7_CompletedReturnsText ==
    LET rq == req[1]
    IN  rq.outcome = "completed"
        => /\ rq.pc \in {"fetch", "done"}
           /\ rq.pc = "done" => rq.reply = StripCitations(rq.fetched)

\* C7, amended: once a poll reports completed no further poll is made; the
\* request returns the citation-stripped text of the latest assistant message
\* when one of at most max_retries fetches gets a text that is not empty
\* after stripping, and the fixed sentence F_NORESP after max_retries fetches
\* that failed or got nothing.
C7_CompletedReturnsTextOrApology ==
    LET rq == req[1]
    IN  rq.outcome = "completed"
        => /\ rq.pc \in {"fetch", "done"}
           /\ rq.pc = "done" =>
                  IF rq.fetch_ok /\ StripCitations(rq.fetched) # None
                  THEN /\ rq.reply = StripCitations(rq.fetched)
                       /\ rq.n_fetch <= max_retries
                  ELSE /\ rq.reply = F_NORESP
                       /\ rq.n_fetch = max_retries

\* C7, witness: a run that was in progress and then completed, whose reply
\* had a citation marker, answered with the text without the marker.
C7_Witness ==
    LET rq == req[1]
    IN  /\ rq.pc = "done" /\ rq.outcome = "completed" /\ rq.n_poll = 2
        /\ rq.fetched = <<"a">> \o Marker \o <<"b">>
        /\ rq.reply = <<"a", "b">>

\* C8: a run that failed, was cancelled, expired, or was not finished within
\* the wait limit is not retried; the latest assistant message is fetched
\* once and returned if the fetch finds one, the fixed sentence F_TECH
\* otherwise.
C8_FallbackPath ==
    LET rq == req[1]
    IN  (rq.pc = "done"
         /\ rq.outcome \in {"failed", "cancelled", "expired", "timed_out"})
        => /\ rq.n_run = 1
           /\ rq.n_fetch = 1
           /\ rq.reply = IF rq.fetch_ok /\ StripCitations(rq.fetched) # None
                         THEN StripCitations(rq.fetched)
                         ELSE F_TECH

\* C8, witness: a second request whose run is not finished within the wait
\* limit is answered with the assistant's text of the first request.
C8_Witness ==
    LET rq == req[1]
    IN  /\ rq.pc = "done" /\ rq.outcome = "timed_out" /\ ask_count = 2
        /\ rq.reply = <<"a">>

\* Polls of one wait: each pass that does not return sleeps at least the
\* initial polling interval.
PollLimit == max_wait_time \div initial_polling_interval

\* C9, as the spec states it: a wait whose polls never report a terminal
\* status makes a bounded number of polls, returns no later than the wait
\* limit plus one polling interval, and the request takes the fallback path.
C9_PollingTerminates ==
    LET rq == req[1]
    IN  /\ rq.pc = "poll" =>
               rq.n_poll < PollLimit /\ rq.elapsed < HalfSeconds(max_wait_time)
        /\ rq.outcome \in {"timed_out", "errors"} =>
               /\ rq.pc \in {"fallback", "done"}
               /\ rq.n_poll <= PollLimit
               /\ rq.waited <= HalfSeconds(max_wait_time + max_polling_interval)

\* C9, amended: a wait whose polls never report a terminal status makes a
\* bounded number of polls and returns before the wait limit plus the timeout
\* of one poll request plus one polling interval, and the request takes the
\* fallback path.
C9_PollingTerminatesLate ==
    LET rq == req[1]
    IN  /\ rq.pc = "poll" =>
               rq.n_poll < PollLimit /\ rq.elapsed < HalfSeconds(max_wait_time)
        /\ rq.outcome \in {"timed_out", "errors"} =>
               /\ rq.pc \in {"fallback", "done"}
               /\ rq.n_poll <= PollLimit
               /\ rq.waited < HalfSeconds(max_wait_time + poll_request_timeout
                                          + max_polling_interval)

\* C9, witness: a wait that returned later than the wait limit plus one
\* polling interval.
C9_Witness ==
    LET rq == req[1]
    IN  /\ rq.pc = "fallback" /\ rq.outcome = "timed_out"
        /\ rq.waited > HalfSeconds(max_wait_time + max_polling_interval)

\* The second of two submissions of one idempotency key: the key was handled
\* before, the lookup comes within the TTL of that handling, and nothing was
\* stored in the cache in between.
Resubmitted(rq) ==
    /\ rq.pc = "done"
    /\ rq.replay_of.valid
    /\ rq.replay_of.at <= REQUEST_CACHE_TTL
    /\ ~rq.replay_of.store_since

\* The response of the first handling again, and nothing else done: no
\* message posted, no run started, no unanswered message counted.
Replayed(rq) ==
    /\ rq.payload = rq.replay_of.payload
    /\ rq.status_code = rq.replay_of.status
    /\ ~rq.sent /\ rq.n_run = 0
    /\ ~rq.counted

\* C2, as the spec states it: a key that was handled and is submitted again
\* within the TTL with no store in between gets the payload and the status
\* code of its first handling, and nothing is handled again.
C2_IdempotentReplay ==
    Resubmitted(req[1]) => Replayed(req[1])

\* C2, the part the code keeps: a key whose handling ended in a 200 response
\* (a reply or a bot-disabled response) and that is submitted again within
\* the TTL with no store in between gets the payload and the status code of
\* its first handling, and nothing is handled again.  A 400 or 500 response
\* is not stored (app.py 249, 256, 362-387), and its key is handled afresh.
C2_IdempotentReplayOfSuccess ==
    (Resubmitted(req[1]) /\ req[1].replay_of.status = 200)
    => req[1].hit /\ Replayed(req[1])

\* C2, a replay that the code does serve: a reply replayed from the cache at the last second of its TTL.
C2_Witness ==
    LET rq == req[1]
    IN  /\ Resubmitted(rq) /\ rq.hit
        /\ rq.replay_of.at = REQUEST_CACHE_TTL
        /\ ReplyOf(rq.payload) = <<"a">>

\* A request with sender and message present that /ask has answered.
Answered(rq) == rq.pc = "done" /\ rq.sender # None /\ rq.message # None

\* The reply is null exactly when the gate was disabled for the sender, and
\* with the gate enabled the body carries a reply and no error.
NullIffDisabled(rq) ==
    /\ ReplyOf(rq.payload) = None <=> rq.gate_off
    /\ ~rq.gate_off => "error" \notin DOMAIN rq.payload

\* C6, as the spec states it: in every response to a request with sender and
\* message present the reply is null exactly when the bot gate is disabled
\* for the sender, and with the gate enabled the response carries a reply
\* string and never an error object.
C6_ReplyNullIffDisabled ==
    Answered(req[1]) => NullIffDisabled(req[1])

\* C6, amended: in every response to a request with sender and message
\* present that is handled afresh (not answered from the cache) while
\* OPENAI_ASSISTANT_ID is set, the reply is null exactly when the bot gate is
\* disabled for the sender, and with the gate enabled the response carries a
\* reply string and no error; with the gate enabled and OPENAI_ASSISTANT_ID
\* not set the response is an error object with status 500.
C6_FreshReplyNullIffDisabled ==
    LET rq == req[1]
    IN  (Answered(rq) /\ ~rq.hit)
        => IF assistant_id_set \/ rq.gate_off
           THEN NullIffDisabled(rq) /\ rq.status_code = 200
           ELSE /\ "error" \in DOMAIN rq.payload
                /\ rq.status_code = 500

\* C6, witness: the second message of a sender whose gate is disabled,
\* answered without a reply.
C6_Witness ==
    LET rq == req[1]
    IN  /\ Answered(rq) /\ ~rq.hit /\ rq.gate_off
        /\ ReplyOf(rq.payload) = None
        /\ rq.payload.unanswered_count = 2

\* The counts of the gate events so far: three inbound messages report 1, 2
\* and 3, the admin reply leaves 0.
CountsSoFar ==
    /\ \A k \in 1..Min(Len(gate_log), 3) : gate_log[k].v = k
    /\ Len(gate_log) >= 4 => gate_log[4].v = 0

C11_DisabledMakesNoRemoteCall ==
    [][ (/\ ask_count' = ask_count + 1
         /\ req'[1].sender # None /\ req'[1].message # None
         /\ ~req'[1].hit
         /\ req'[1].sender \in DOMAIN bot_status
         /\ bot_status[req'[1].sender] = FALSE)
        => /\ req'[1].pc = "done"
           /\ ~req'[1].sent
           /\ req'[1].n_create = 0 /\ req'[1].n_run = 0
           /\ req'[1].n_poll = 0 /\ req'[1].n_fetch = 0
           /\ last_assistant' = last_assistant
           /\ nomor_to_thread' = nomor_to_thread
           /\ threads_file' = threads_file
           /\ \E i \in DOMAIN conversations' : conversations'[i] = req'[1].sender
           /\ ReplyOf(req'[1].payload) = None
           /\ req'[1].payload.unanswered_count
                  = unanswered_messages'[req'[1].sender] ]_vars

\* C11, witness: a sender who has a thread from an earlier request, with the
\* gate now disabled, has a message taken in and counted without a call.
C11_Witness ==
    LET rq == req[1]
    IN  /\ rq.pc = "done" /\ rq.gate_off /\ rq.counted /\ ~rq.sent
        /\ Len(last_assistant) = 1
        /\ get_thread_id_for_nomor(nomor_to_thread, rq.sender) = 1
        /\ rq.payload.unanswered_count = 2

\* The keys of the cache entries, least recently used first.
CacheKeys(c) == [i \in DOMAIN c |-> c[i].key]

\* C12: a store that finds the cache at capacity evicts exactly one entry,
\* the one whose latest store or lookup is older than that of every other
\* entry (so never an entry looked up after all others were last touched),
\* and keeps the others; a store that finds room evicts nothing.
C12_EvictsLeastRecentlyUsed ==
    [][ LET k == req'[1].idempotency_key
            before == Sweep(request_cache, now)
            kept == {before[i].key : i \in DOMAIN before}
                        \cap {request_cache'[i].key : i \in DOMAIN request_cache'}
            evicted == {before[i].key : i \in DOMAIN before} \ kept
        IN  (/\ req'[1] # req[1] /\ req'[1].pc = "done"
             /\ k # None /\ ~req'[1].hit /\ req'[1].status_code = 200)
            => /\ InCache(request_cache', k)
               /\ IF Len(before) >= MAX_CACHE_SIZE
                  THEN /\ Cardinality(evicted) = 1
                       /\ \A e \in evicted, x \in kept :
                              handled[e].touched < handled[x].touched
                  ELSE evicted = {}
               /\ Len(request_cache') <= MAX_CACHE_SIZE ]_vars

\* C12, witness: K1 and K2 were stored in that order, K1 was looked up, and
\* the store of K3 has evicted K2 and left K1.
C12_Witness ==
    /\ CacheKeys(request_cache) = <<K1, K3>>
    /\ K2 \in DOMAIN handled
    /\ handled[K2].touched = 2 /\ handled[K1].touched = 3
    /\ now - handled[K2].at <= REQUEST_CACHE_TTL
    /\ req[1].pc = "done" /\ req[1].idempotency_key = K3

\* C13: every step of a request that carries neither an X-Idempotency-Key
\* header nor a request_id leaves the request cache as it is (nothing added,
\* moved, swept or evicted), and the request is never answered from the cache.
C13_NoKeyBypassesCache ==
    [][ (req'[1] # req[1] /\ req'[1].idempotency_key = None)
        => /\ request_cache' = request_cache
           /\ ~req'[1].hit ]_vars

\* C13, witness: a request without a key was answered by the bot while the
\* cache held an entry that had outlived its TTL, and the entry is still there.
C13_Witness ==
    LET rq == req[1]
    IN  /\ rq.pc = "done" /\ rq.idempotency_key = None
        /\ rq.status_code = 200 /\ rq.sent
        /\ \E i \in DOMAIN request_cache :
               now - request_cache[i].timestamp > REQUEST_CACHE_TTL

\* A text in which no citation marker starts anywhere.
NoMatch(s) == \A i \in DOMAIN s : MatchEnd(s, i) = 0

\* C14: whatever the assistant wrote, the text the request returns after the
\* stripping of citation markers is unchanged by a second stripping, and a
\* text without a marker is returned as it was written.
C14_StrippingIdempotent ==
    LET rq == req[1]
    IN  (rq.pc = "done" /\ rq.outcome = "completed" /\ rq.fetch_ok
         /\ rq.reply # F_NORESP)
        => /\ StripCitations(rq.reply) = rq.reply
           /\ NoMatch(rq.fetched) => rq.reply = rq.fetched

\* A request that has posted its message to a thread.
Posted(rq) == rq.sent /\ rq.pc \in {"run", "poll", "fetch", "fallback", "done"}

\* C15: when two requests of one sender that had no binding are in progress
\* at once and both have posted their message, one thread has been created,
\* both posted to it, and the registry holds one binding, to that thread.
C15_OneThreadUnderRace ==
    (Posted(req[1]) /\ Posted(req[2]) /\ req[1].sender = req[2].sender)
    => /\ Len(last_assistant) = 1
       /\ req[1].thread_id = req[2].thread_id
       /\ DOMAIN nomor_to_thread = {req[1].sender}
       /\ nomor_to_thread[req[1].sender] = req[1].thread_id

C17_ReplacedAfterTwoFailures ==
    [][ LET rq == req[1]
        IN  (rq.pc \notin {"idle", "done"} /\ rq.thread_id # NoThread)
            => /\ (\/ req'[1].thread_id # rq.thread_id
                    \/ get_thread_id_for_nomor(nomor_to_thread', rq.sender)
                           # get_thread_id_for_nomor(nomor_to_thread, rq.sender))
                   => (rq.fails >= 2 /\ req'[1].fails = 0)
               /\ rq.fails < 2
                   => (nomor_to_thread' = nomor_to_thread
                       /\ req'[1].thread_id = rq.thread_id) ]_vars

\* C17, witness: a bound thread failed both checks, was replaced, and the
\* request was answered from the replacement.
C17_Witness ==
    /\ req[1].pc = "done" /\ req[1].ok
    /\ ~req[1].miss /\ req[1].n_rebind = 1
    /\ req[1].n_post = 1
    /\ get_thread_id_for_nomor(nomor_to_thread, req[1].sender) = req[1].thread_id
    /\ req[1].thread_id = 2

\* C18: while one request is handled, the thread of its sender is replaced
\* at most once.
C18_OneCorrectionPerRequest == req[1].n_rebind <= 1

\* C19: per request the post is tried at most max_retries times and so is
\* the creation of the run; a run is created only with a message id, a poll
\* made only with a run id; a request without a message id creates no run
\* and one without a run id polls nothing, and when every attempt failed the
\* answer is the fixed text of the step.
C19_StepsBoundedAndOrdered ==
    LET rq == req[1]
    IN  /\ rq.n_post <= max_retries /\ rq.n_runpost <= max_retries
        /\ rq.n_runpost > 0 => rq.msg_id
        /\ (rq.n_poll > 0 \/ rq.n_fetch > 0) => (rq.run_id /\ rq.msg_id)
        /\ (rq.pc = "done" /\ rq.n_post = max_retries /\ ~rq.msg_id)
           => (rq.reply = F_POST /\ rq.n_runpost = 0 /\ rq.n_poll = 0)
        /\ (rq.pc = "done" /\ rq.n_runpost = max_retries /\ ~rq.run_id)
           => (rq.reply = F_RUN /\ rq.n_poll = 0 /\ rq.n_fetch = 0)
        /\ (rq.pc = "done" /\ rq.n_post > 0 /\ ~rq.msg_id)
           => (rq.reply \in {F_POST, F_THREAD} /\ rq.n_runpost = 0)
        /\ (rq.pc = "done" /\ rq.n_runpost > 0 /\ ~rq.run_id)
           => rq.reply = F_RUN

\* C19, witness: a request whose three posts failed, and which was answered
\* with the text of the failed post.
C19_Witness ==
    /\ req[1].pc = "done" /\ req[1].n_post = max_retries
    /\ ~req[1].msg_id /\ req[1].reply = F_POST /\ req[1].n_runpost = 0

\* C20: the wait goes on only while the failed polls in a row are at most
\* max_timeout_retries, and when it gave up on failed polls the failed polls
\* in a row were one more than that; a poll that is answered starts the
\* count afresh.
C20_GivesUpAfterBudget ==
    LET rq == req[1]
    IN  /\ rq.pc = "poll" => rq.streak <= max_timeout_retries
        /\ rq.outcome = "errors" => rq.streak = max_timeout_retries + 1

\* C21: a response is served from the cache only while the entry's age is at
\* most the TTL, whatever lookups hit it in between; a lookup with a key
\* leaves no entry older than the TTL in the cache, and the passing of time
\* alone removes nothing.
C21_NoReplayAfterTTL ==
    [][ /\ (req'[1].pc = "done" /\ req'[1].hit /\ ask_count' # ask_count)
           => /\ req'[1].replay_of.valid
              /\ req'[1].replay_of.at <= REQUEST_CACHE_TTL
        /\ (ask_count' # ask_count /\ HasKey(req'[1].idempotency_key))
           => \A i \in DOMAIN request_cache' :
                  now' - request_cache'[i].timestamp <= REQUEST_CACHE_TTL
        /\ now' # now => request_cache' = request_cache ]_vars

\* C21, witness: a key stored, hit by a second lookup within the TTL, and
\* looked up a third time after the TTL: the third request is handled afresh.
C21_Witness ==
    /\ ask_count = 3 /\ req[1].ord = 3
    /\ ~req[1].hit /\ req[1].pc = "analytics"
    /\ req[1].replay_of.valid /\ req[1].replay_of.status = 200
    /\ req[1].replay_of.touched = 2
    /\ req[1].replay_of.at > REQUEST_CACHE_TTL
    /\ ~InCache(request_cache, req[1].idempotency_key)

\* C22: when a request with an idempotency key that was not in the cache has
\* been handled, the cache holds an entry for the key with the payload and
\* the status code that were returned.
C22_HandledKeyIsCached ==
    LET rq == req[1]
        k == rq.idempotency_key
    IN  (rq.pc = "done" /\ HasKey(k) /\ ~rq.hit)
        => /\ InCache(request_cache, k)
           /\ request_cache[CacheIndex(request_cache, k)].response = rq.payload
           /\ request_cache[CacheIndex(request_cache, k)].status_code
                  = rq.status_code

\* What an inbound message does to the gate: the enabled flags stay, and
\* the counts change only for a sender whose gate is disabled, by one.
InboundOnGate ==
    ask_count' # ask_count
    => /\ bot_status' = bot_status
       /\ unanswered_messages' # unanswered_messages
          => /\ IsDisabled(bot_status, req'[1].sender)
             /\ unanswered_messages' =
                    Bind(unanswered_messages, req'[1].sender,
                         NextCount(unanswered_messages, req'[1].sender))

\* The senders whose gate is disabled.
DisabledSenders(bs) == {s \in DOMAIN bs : IsDisabled(bs, s)}

C24_NoLostIncrement ==
    (ask_count > 0 /\ \A r \in Slots : req[r].pc \in {"idle", "done"})
    => /\ unanswered_messages[<<NUM>>] = ask_count
       /\ (req[1].pc = "done" /\ req[2].pc = "done")
          => req[1].payload.unanswered_count # req[2].payload.unanswered_count

\* C25: when a request found no thread for its identity string s and created
\* thread T, T is bound under the key s itself, and the lookup of s gives T
\* as long as the binding is not replaced or deleted.
C25_StoreLookupRoundTrip ==
    LET rq == req[1]
    IN  (rq.pc = "done" /\ rq.sent /\ rq.miss /\ rq.n_create = 1
         /\ rq.n_rebind = 0)
        => /\ Lookup(nomor_to_thread, rq.sender) = rq.thread_id
           /\ get_thread_id_for_nomor(nomor_to_thread, rq.sender) = rq.thread_id

\* C25, the part the code keeps: the new thread is bound under the string
\* the request gave.
C25_StoredUnderGivenKey ==
    LET rq == req[1]
    IN  (rq.pc = "done" /\ rq.sent /\ rq.miss /\ rq.n_create = 1
         /\ rq.n_rebind = 0)
        => Lookup(nomor_to_thread, rq.sender) = rq.thread_id

\* C26: a step in which delete_thread_for_nomor(n) removed a binding (and so
\* returned True) leaves n without a thread under every candidate key.
C26_DeleteRemovesBinding ==
    [][ \A n \in {Raw, Suffixed} :
          LET k == FirstKey(nomor_to_thread, Candidates(n))
          IN  (/\ k # None
               /\ nomor_to_thread' = Unbind(nomor_to_thread, k)
               /\ req' = req)
              => get_thread_id_for_nomor(nomor_to_thread', n) = NoThread ]_vars

\* C27: a step in which the correction path replaces the thread of a request
\* leaves the raw form and the suffixed form of the number resolving to the
\* new thread, so that no form resolves to the replaced one.
C27_OneThreadAfterRebind ==
    [][ req'[1].n_rebind > req[1].n_rebind
        => \A n \in {Raw, Suffixed} :
               get_thread_id_for_nomor(nomor_to_thread', n) = req'[1].thread_id
      ]_vars

\* C28: the cache never holds more than MAX_CACHE_SIZE entries nor two
\* entries of one key, and a step that stores a new key in a cache that is
\* full (after the sweep of the lookup, when the lookup is in the same step)
\* removes exactly the oldest entry and then adds the new one.
C28_CacheBounded ==
    [][ /\ Len(request_cache') <= MAX_CACHE_SIZE
        /\ \A i, j \in DOMAIN request_cache' :
               request_cache'[i].key = request_cache'[j].key => i = j
        /\ \A k \in Keys \cup {K3} :
               (InCache(request_cache', k) /\ ~InCache(request_cache, k))
               => LET c0 == IF ask_count' # ask_count
                            THEN Sweep(request_cache, now) ELSE request_cache
                  IN  CacheKeys(request_cache') =
                          IF Len(c0) >= MAX_CACHE_SIZE
                          THEN Append(Tail(CacheKeys(c0)), k)
                          ELSE Append(CacheKeys(c0), k) ]_vars

\* C28, witness: three keys were handled and the third was stored in a full
\* cache, which holds MAX_CACHE_SIZE entries afterwards.
C28_Witness ==
    /\ req[1].pc = "done" /\ ~req[1].hit
    /\ DOMAIN handled = Keys \cup {K3}
    /\ now = 0
    /\ Len(request_cache) = MAX_CACHE_SIZE
    /\ request_cache[MAX_CACHE_SIZE].key = req[1].idempotency_key

\* C29: when two submissions of one idempotency key, handled at the same
\* time for a sender whose gate is enabled, are both answered, at most one
\* message was posted and at most one run started, and the two responses
\* are the same.
C29_ConcurrentDuplicates ==
    (/\ req[1].pc = "done" /\ req[2].pc = "done"
     /\ req[1].idempotency_key = req[2].idempotency_key)
    => /\ req[1].n_post + req[2].n_post <= 1
       /\ req[1].n_run + req[2].n_run <= 1
       /\ req[1].payload = req[2].payload

\* C30: a step in which the creation of a thread fails, for a sender without
\* a thread or for the replacement of a thread, leaves the registry and its
\* file as they were and ends the request with the fixed text of that
\* failure, with no message posted and no run started.
C30_FailedCreationKeepsBindings ==
    [][ (req'[1].create_failed /\ ~req[1].create_failed)
        => /\ nomor_to_thread' = nomor_to_thread
           /\ threads_file' = threads_file
           /\ last_assistant' = last_assistant
           /\ get_thread_id_for_nomor(nomor_to_thread', req'[1].sender)
                  = req'[1].thread_id
           /\ req'[1].pc = "done"
           /\ req'[1].reply = IF req'[1].thread_id = NoThread THEN F_CREATE
                              ELSE F_THREAD
           /\ ~req'[1].msg_id
           /\ req'[1].n_runpost = 0 /\ req'[1].n_poll = 0 ]_vars

\* C30, witness: the thread of a sender failed both checks and the creation
\* of its replacement failed; the sender is still bound to the old thread.
C30_Witness ==
    /\ req[1].pc = "done" /\ req[1].create_failed
    /\ ~req[1].miss /\ req[1].n_post = 0 /\ req[1].fails = 2
    /\ req[1].thread_id # NoThread
    /\ get_thread_id_for_nomor(nomor_to_thread, req[1].sender)
           = req[1].thread_id
    /\ req[1].reply = F_THREAD

====
